---- MODULE Spec2Model ----
(***************************************************************************)
(* Naive Bayes spam filter of bayes_spamfilter.ipynb: the training cells   *)
(* (cleaning, tokenizing, vocabulary, word counts, priors, likelihoods),   *)
(* the classify function and the evaluation cells (predictions, accuracy,  *)
(* metrics), over Python floats (IEEE-754 binary64).                       *)
(***************************************************************************)
EXTENDS Integers, Sequences, FiniteSets, TLC

(***************************************************************************)
(* Natural numbers of any size: little-endian sequences of limbs below     *)
(* Base, without high zero limbs; zero is the empty sequence.  They carry  *)
(* the 53-bit significands of Python floats and the exact products.        *)
(***************************************************************************)
LimbBits == 14
Base == 2 ^ LimbBits

Max(a, b) == IF a >= b THEN a ELSE b

\* a without its high zero limbs
BNorm(a) ==
    LET nz == {i \in 1..Len(a) : a[i] # 0}
    IN  IF nz = {} THEN <<>>
        ELSE SubSeq(a, 1, CHOOSE i \in nz : \A j \in nz : j <= i)

RECURSIVE BFromInt(_)
BFromInt(n) ==
    IF n = 0 THEN <<>> ELSE <<n % Base>> \o BFromInt(n \div Base)

Limb(a, i) == IF i <= Len(a) THEN a[i] ELSE 0

\* Every pass over the limbs halves its range, the carry going from the low
\* half to the high half, so that long numbers need no deep recursion.
RECURSIVE BAddRange(_, _, _, _, _)
BAddRange(a, b, lo, hi, c) ==
    IF lo = hi
    THEN LET s == Limb(a, lo) + Limb(b, lo) + c
         IN  [limbs |-> <<s % Base>>, carry |-> s \div Base]
    ELSE LET mid  == (lo + hi) \div 2
             low  == BAddRange(a, b, lo, mid, c)
             high == BAddRange(a, b, mid + 1, hi, low.carry)
         IN  [limbs |-> low.limbs \o high.limbs, carry |-> high.carry]

WithCarry(r) == IF r.carry = 0 THEN r.limbs ELSE r.limbs \o <<r.carry>>

BAdd(a, b) ==
    IF a = <<>> THEN b
    ELSE IF b = <<>> THEN a
    ELSE WithCarry(BAddRange(a, b, 1, Max(Len(a), Len(b)), 0))

RECURSIVE BMulSmallRange(_, _, _, _, _)
BMulSmallRange(a, x, lo, hi, c) ==
    IF lo = hi
    THEN LET p == a[lo] * x + c
         IN  [limbs |-> <<p % Base>>, carry |-> p \div Base]
    ELSE LET mid  == (lo + hi) \div 2
             low  == BMulSmallRange(a, x, lo, mid, c)
             high == BMulSmallRange(a, x, mid + 1, hi, low.carry)
         IN  [limbs |-> low.limbs \o high.limbs, carry |-> high.carry]

\* a * x for a limb x < Base
BMulSmall(a, x) ==
    IF x = 0 \/ a = <<>> THEN <<>>
    ELSE WithCarry(BMulSmallRange(a, x, 1, Len(a), 0))

\* a * Base^q
BShiftLimbs(a, q) == IF a = <<>> THEN <<>> ELSE [i \in 1..q |-> 0] \o a

\* (the limbs lo..hi of a, as a number) * b
RECURSIVE BMulRange(_, _, _, _)
BMulRange(a, b, lo, hi) ==
    IF lo = hi THEN BMulSmall(b, a[lo])
    ELSE LET mid == (lo + hi) \div 2
         IN  BAdd(BMulRange(a, b, lo, mid),
                  BShiftLimbs(BMulRange(a, b, mid + 1, hi), mid + 1 - lo))

BMul(a, b) ==
    IF a = <<>> \/ b = <<>> THEN <<>> ELSE BMulRange(a, b, 1, Len(a))

RECURSIVE BCmpRange(_, _, _, _)
BCmpRange(a, b, lo, hi) ==
    IF lo = hi
    THEN IF a[lo] < b[lo] THEN -1 ELSE IF a[lo] > b[lo] THEN 1 ELSE 0
    ELSE LET mid  == (lo + hi) \div 2
             high == BCmpRange(a, b, mid + 1, hi)
         IN  IF high # 0 THEN high ELSE BCmpRange(a, b, lo, mid)

\* -1, 0, 1 as a < b, a = b, a > b
BCmp(a, b) ==
    IF Len(a) < Len(b) THEN -1
    ELSE IF Len(a) > Len(b) THEN 1
    ELSE IF a = <<>> THEN 0
    ELSE BCmpRange(a, b, 1, Len(a))

RECURSIVE BitLenSmall(_)
BitLenSmall(x) == IF x = 0 THEN 0 ELSE 1 + BitLenSmall(x \div 2)

BBitLen(a) ==
    IF a = <<>> THEN 0 ELSE LimbBits * (Len(a) - 1) + BitLenSmall(a[Len(a)])

\* bit i (from 0) of a
BBit(a, i) ==
    LET k == (i \div LimbBits) + 1
    IN  IF k > Len(a) THEN 0 ELSE (a[k] \div (2 ^ (i % LimbBits))) % 2

\* a * 2^s
BShl(a, s) ==
    BShiftLimbs(BMulSmall(a, 2 ^ (s % LimbBits)), s \div LimbBits)

\* floor(a / 2^s)
BShr(a, s) ==
    LET q == s \div LimbBits
        r == s % LimbBits
        d == IF q >= Len(a) THEN <<>> ELSE SubSeq(a, q + 1, Len(a))
    IN  BNorm([i \in 1..Len(d) |->
                 (d[i] \div (2 ^ r))
                 + (IF i < Len(d) THEN (d[i + 1] % (2 ^ r)) * (2 ^ (LimbBits - r))
                    ELSE 0)])

\* a mod 2^s = 0
BLowZero(a, s) ==
    LET q == s \div LimbBits
        r == s % LimbBits
    IN  /\ \A i \in 1..Len(a) : i <= q => a[i] = 0
        /\ q + 1 <= Len(a) => a[q + 1] % (2 ^ r) = 0

\* <<floor(a / d), a mod d>> for 0 < d, d * Base within the integers
RECURSIVE BDivSmall(_, _)
BDivSmall(a, d) ==
    IF a = <<>> THEN << <<>>, 0 >>
    ELSE LET hi  == BDivSmall(Tail(a), d)
             cur == hi[2] * Base + a[1]
         IN  << <<cur \div d>> \o hi[1], cur % d >>

(***************************************************************************)
(* Python floats are IEEE-754 binary64.  Every float of the notebook's     *)
(* probability arithmetic is finite and non-negative: [m, e] stands for    *)
(* m * 2^e with m < 2^Precision; it is canonical (m >= 2^(Precision-1) or  *)
(* e = MinExp; zero has m = <<>>, e = MinExp), so equal floats are equal   *)
(* records.  Results are rounded to nearest, ties to even.                 *)
(***************************************************************************)
Precision == 53
MinExp == -1074

FZero == [m |-> <<>>, e |-> MinExp]

\* a / 2^s rounded to the nearest integer, ties to even (s > 0)
BRoundShr(a, s) ==
    LET q      == BShr(a, s)
        guard  == BBit(a, s - 1) = 1
        sticky == ~BLowZero(a, s - 1)
        odd    == BBit(q, 0) = 1
    IN  IF guard /\ (sticky \/ odd) THEN BAdd(q, <<1>>) ELSE q

\* the float nearest to P * 2^E
FRound(P, E) ==
    IF P = <<>> THEN FZero
    ELSE LET s == Max(BBitLen(P) - Precision, MinExp - E)
         IN  IF s > 0
             THEN LET q == BRoundShr(P, s)
                  IN  IF BBitLen(q) > Precision
                      THEN [m |-> BShr(q, 1), e |-> E + s + 1]
                      ELSE [m |-> q, e |-> E + s]
             ELSE [m |-> BShl(P, -s), e |-> E + s]

FromInt(n) == FRound(BFromInt(n), 0)

FMul(x, y) == FRound(BMul(x.m, y.m), x.e + y.e)

FAdd(x, y) ==
    IF x.e >= y.e THEN FRound(BAdd(BShl(x.m, x.e - y.e), y.m), y.e)
    ELSE FRound(BAdd(BShl(y.m, y.e - x.e), x.m), x.e)

\* x < y
FLess(x, y) ==
    IF x.e # y.e THEN x.e < y.e ELSE BCmp(x.m, y.m) < 0

\* int64 / int64 of numpy: both to float (exact here), then the quotient rounded
DivScale == Precision + 2 * LimbBits
FDivInt(n, d) ==
    LET qr == BDivSmall(BShl(BFromInt(n), DivScale), d)
        q  == BNorm(qr[1])
        P  == BAdd(BShl(q, 1), IF qr[2] = 0 THEN <<>> ELSE <<1>>)
    IN  FRound(P, -DivScale - 1)

\* a - b for a >= b
RECURSIVE BSubFrom(_, _, _, _)
BSubFrom(a, b, i, borrow) ==
    IF i > Len(a) THEN <<>>
    ELSE LET s == a[i] - Limb(b, i) - borrow
         IN  <<(s + Base) % Base>> \o BSubFrom(a, b, i + 1, IF s < 0 THEN 1 ELSE 0)

BSub(a, b) == BNorm(BSubFrom(a, b, 1, 0))

\* the greatest limb d with d * b <= cur, for cur < b * Base: first the
\* high half of d, then the low half
BDigit(cur, b) ==
    LET R == 2 ^ ((LimbBits + 1) \div 2)
        Fits(d) == BCmp(BMulSmall(b, d), cur) <= 0
        h == CHOOSE x \in 0..((Base \div R) - 1) :
                 Fits(x * R) /\ (x = (Base \div R) - 1 \/ ~Fits((x + 1) * R))
        l == CHOOSE x \in 0..(R - 1) :
                 Fits(h * R + x) /\ (x = R - 1 \/ ~Fits(h * R + x + 1))
    IN  h * R + l

\* [q |-> the limbs of floor(a / b), r |-> a mod b] for b # 0: long division
\* from the high limb down
RECURSIVE BDivMod(_, _)
BDivMod(a, b) ==
    IF a = <<>> THEN [q |-> <<>>, r |-> <<>>]
    ELSE LET hi == BDivMod(Tail(a), b)
         IN  IF hi.r = <<>> /\ a[1] = 0
             THEN [q |-> <<0>> \o hi.q, r |-> <<>>]
             ELSE LET cur == BNorm(<<a[1]>> \o hi.r)
                      d   == BDigit(cur, b)
                  IN  [q |-> <<d>> \o hi.q, r |-> BSub(cur, BMulSmall(b, d))]

\* what numpy's float64 gives where no number is the answer: 0/0 is nan, and
\* every operation on nan is nan; x/0 is inf
NaN == [nan |-> TRUE]
Inf == [inf |-> TRUE]

\* float64 / float64
FDiv(x, y) ==
    IF x = NaN \/ y = NaN THEN NaN
    ELSE IF y = FZero THEN (IF x = FZero THEN NaN ELSE Inf)
    ELSE IF x = FZero THEN FZero
    ELSE LET S  == BBitLen(y.m) + Precision + 2 - BBitLen(x.m)
             qr == BDivMod(BShl(x.m, S), y.m)
             q2 == BShl(BNorm(qr.q), 1)
         IN  IF qr.r = <<>> THEN FRound(q2, x.e - y.e - S - 1)
             ELSE FRound(BAdd(q2, <<1>>), x.e - y.e - S - 1)

\* int64 / int64 of numpy where the divisor may be 0
FDivIntOrNaN(n, d) ==
    IF d = 0 THEN (IF n = 0 THEN NaN ELSE Inf) ELSE FDivInt(n, d)

FMulOrNaN(x, y) == IF x = NaN \/ y = NaN THEN NaN ELSE FMul(x, y)

FAddOrNaN(x, y) == IF x = NaN \/ y = NaN THEN NaN ELSE FAdd(x, y)

(***************************************************************************)
(* Strings are sequences of characters.  The characters of the model, by   *)
(* the classes the notebook's string operations tell apart.                *)
(***************************************************************************)
\* "U+0130" is the one character LATIN CAPITAL LETTER I WITH DOT ABOVE, a word
\* character; its lower case is two characters, 'i' and "U+0307" (COMBINING DOT
\* ABOVE), and the second is not a word character
WordChars == {"a", "b", "c", "i", "A", "B", "U+0130"}
Whitespace == {" "}
ToLower ==
    [c \in {"A", "B", "U+0130"} |->
       CASE c = "A" -> <<"a">>
         [] c = "B" -> <<"b">>
         [] c = "U+0130" -> <<"i", "U+0307">>]

RECURSIVE Flatten(_)
Flatten(ss) ==
    IF Len(ss) = 0 THEN <<>>
    ELSE IF Len(ss) = 1 THEN ss[1]
    ELSE LET mid == Len(ss) \div 2
         IN  Flatten(SubSeq(ss, 1, mid)) \o Flatten(SubSeq(ss, mid + 1, Len(ss)))

\* re.sub('\W', ' ', s) and .str.replace('\W', ' '): each non-word character
\* becomes one space
ReplaceNonWord(s) ==
    [i \in 1..Len(s) |-> IF s[i] \in WordChars THEN s[i] ELSE " "]

\* str.lower
Lower(s) ==
    Flatten([i \in 1..Len(s) |->
               IF s[i] \in DOMAIN ToLower THEN ToLower[s[i]] ELSE <<s[i]>>])

TokenEnd(s, i) ==
    CHOOSE j \in i..Len(s) :
        /\ \A k \in i..j : s[k] \notin Whitespace
        /\ j = Len(s) \/ s[j + 1] \in Whitespace

RECURSIVE SplitRange(_, _, _)
SplitRange(s, lo, hi) ==
    IF lo > hi THEN <<>>
    ELSE IF lo = hi
    THEN IF s[lo] \notin Whitespace /\ (lo = 1 \/ s[lo - 1] \in Whitespace)
         THEN <<SubSeq(s, lo, TokenEnd(s, lo))>>
         ELSE <<>>
    ELSE LET mid == (lo + hi) \div 2
         IN  SplitRange(s, lo, mid) \o SplitRange(s, mid + 1, hi)

\* str.split(' '): the pieces between single spaces, the empty ones too
SplitOnSpace(s) ==
    LET seps == {i \in 1..Len(s) : s[i] = " "}
        cut(k) == IF k = 0 THEN 0
                  ELSE IF k > Cardinality(seps) THEN Len(s) + 1
                  ELSE CHOOSE i \in seps : Cardinality({j \in seps : j <= i}) = k
    IN  [k \in 1..(Cardinality(seps) + 1) |-> SubSeq(s, cut(k - 1) + 1, cut(k) - 1)]

\* str.split(): the maximal runs of non-whitespace characters, in order
Split(s) == SplitRange(s, 1, Len(s))

(***************************************************************************)
(* The inputs: the training rows (Label, SMS) and the messages classified. *)
(***************************************************************************)
MaxMsgs == 3

TrainTexts ==
    { <<"!">>,                \* no token
      <<"a">>,
      <<"B", "!", "B">>,      \* one word twice, upper case, split by '!'
      <<"a", " ", "B">> }

Labels == {"ham", "spam"}

Rows == [Label : Labels, SMS : TrainTexts]

Corpora == UNION {[1..n -> Rows] : n \in 1..MaxMsgs}

TestTexts ==
    { <<>>,
      <<"c">>,                \* a word no training text holds
      <<"a">>,
      <<"B">>,
      <<"a", " ", "c">>,
      <<"a", "!", "B">> }

\* the orders list(set(...)) may give a set
Orders(S) ==
    {s \in [1..Cardinality(S) -> S] : \A i, j \in DOMAIN s : s[i] = s[j] => i = j}

Range(s) == {s[i] : i \in DOMAIN s}

alpha == 1

(***************************************************************************)
(* The notebook's global names and the frame of one classify call.         *)
(* `bound` holds the global names assigned so far; a name outside it is    *)
(* undefined in the kernel, whatever its variable holds here.              *)
(***************************************************************************)
VARIABLES
    cell,                   \* the training cell to run next, or how training ended
    bound,
    msgs_train,
    msgs_train_cln,
    vocabulary,
    word_counts_per_sms,
    p_spam, p_ham,
    n_spam, n_ham,
    p_given_spam, p_given_ham,
    counter_spam, counter_ham,
    frame,                  \* where the classify call stands
    message,                \* classify's local: the token list
    word_at,                \* the position of `for word in message`
    p_spam_given_message, p_ham_given_message,
    classified,
    Out,                    \* a kept earlier output: <<>> or <<[message, classified]>>
    msgs_test,              \* the rows kept for testing, 'Predicted' once applied
    predicted,              \* what .apply(classify) has returned so far
    msgs_boolean,
    total_accuracy,
    true_pos, false_neg, false_pos,
    metrics

training == <<cell, bound, msgs_train, msgs_train_cln, vocabulary,
              word_counts_per_sms, p_spam, p_ham, n_spam, n_ham,
              p_given_spam, p_given_ham, counter_spam, counter_ham>>
locals == <<frame, message, word_at, p_spam_given_message,
            p_ham_given_message, classified>>
evaluation == <<msgs_test, predicted, msgs_boolean, total_accuracy, true_pos,
                false_neg, false_pos, metrics>>
vars == <<training, locals, Out, evaluation>>

InitOn(corpus, test) ==
    /\ cell = "clean"
    /\ bound = {"msgs_train", "msgs_test"}
    /\ msgs_train = corpus
    /\ msgs_test = test
    /\ predicted = <<>>
    /\ msgs_boolean = <<>>
    /\ total_accuracy = FZero
    /\ true_pos = 0 /\ false_neg = 0 /\ false_pos = 0
    /\ metrics = <<>>
    /\ msgs_train_cln = <<>>
    /\ vocabulary = <<>>
    /\ word_counts_per_sms = <<>>
    /\ p_spam = FZero /\ p_ham = FZero
    /\ n_spam = 0 /\ n_ham = 0
    /\ p_given_spam = <<>> /\ p_given_ham = <<>>
    /\ counter_spam = FZero /\ counter_ham = FZero
    /\ frame = "none"
    /\ message = <<>>
    /\ word_at = 0
    /\ p_spam_given_message = FZero /\ p_ham_given_message = FZero
    /\ classified = "none"
    /\ Out = <<>>

InitWith(corpus) == InitOn(corpus, <<>>)

Init == \E corpus \in Corpora : InitWith(corpus)

(***************************************************************************)
(* Training: the cells in the notebook's order.                            *)
(***************************************************************************)

\* msgs_train_cln['SMS'].str.replace('\W', ' '), then .str.lower()
CleanCell ==
    /\ cell = "clean"
    /\ msgs_train_cln' =
           [i \in 1..Len(msgs_train) |->
              [Label |-> msgs_train[i].Label,
               SMS   |-> Lower(ReplaceNonWord(msgs_train[i].SMS))]]
    /\ bound' = bound \cup {"msgs_train_cln"}
    /\ cell' = "split"
    /\ UNCHANGED <<msgs_train, vocabulary, word_counts_per_sms, p_spam, p_ham,
                   n_spam, n_ham, p_given_spam, p_given_ham, counter_spam,
                   counter_ham, locals, Out, evaluation>>

\* msgs_train_cln['SMS'].str.split()
SplitCell ==
    /\ cell = "split"
    /\ msgs_train_cln' =
           [i \in 1..Len(msgs_train_cln) |->
              [Label |-> msgs_train_cln[i].Label,
               SMS   |-> Split(msgs_train_cln[i].SMS)]]
    /\ cell' = "vocabulary"
    /\ UNCHANGED <<bound, msgs_train, vocabulary, word_counts_per_sms, p_spam,
                   p_ham, n_spam, n_ham, p_given_spam, p_given_ham,
                   counter_spam, counter_ham, locals, Out, evaluation>>

\* VocabularyCell with the words of the spam rows only
VocabularyCellSpamRows ==
    /\ cell = "vocabulary"
    /\ \E order \in Orders(UNION {Range(msgs_train_cln[i].SMS) :
                                    i \in {j \in 1..Len(msgs_train_cln) :
                                             msgs_train_cln[j].Label = "spam"}}) :
           vocabulary' = order
    /\ bound' = bound \cup {"vocabulary"}
    /\ cell' = "word_counts"
    /\ UNCHANGED <<msgs_train, msgs_train_cln, word_counts_per_sms, p_spam,
                   p_ham, n_spam, n_ham, p_given_spam, p_given_ham,
                   counter_spam, counter_ham, locals, Out, evaluation>>

\* every item of every row, then list(set(vocabulary)): in any order
VocabularyCell ==
    /\ cell = "vocabulary"
    /\ \E order \in Orders(UNION {Range(msgs_train_cln[i].SMS) :
                                    i \in 1..Len(msgs_train_cln)}) :
           vocabulary' = order
    /\ bound' = bound \cup {"vocabulary"}
    /\ cell' = "word_counts"
    /\ UNCHANGED <<msgs_train, msgs_train_cln, word_counts_per_sms, p_spam,
                   p_ham, n_spam, n_ham, p_given_spam, p_given_ham,
                   counter_spam, counter_ham, locals, Out, evaluation>>

\* Occurrences with `= 1` for `+= 1`: a word counts once in an sms
OccurrencesOnce(sms, word) == IF \E k \in 1..Len(sms) : sms[k] = word THEN 1 ELSE 0

\* word_counts_per_sms[word][index] += 1 for each word of each sms
Occurrences(sms, word) == Cardinality({k \in 1..Len(sms) : sms[k] = word})

WordCountsCell ==
    /\ cell = "word_counts"
    /\ word_counts_per_sms' =
           [word \in Range(vocabulary) |->
              [index \in 1..Len(msgs_train_cln) |->
                 Occurrences(msgs_train_cln[index].SMS, word)]]
    /\ bound' = bound \cup {"word_counts_per_sms", "final_training"}
    /\ cell' = "priors"
    /\ UNCHANGED <<msgs_train, msgs_train_cln, vocabulary, p_spam, p_ham,
                   n_spam, n_ham, p_given_spam, p_given_ham, counter_spam,
                   counter_ham, locals, Out, evaluation>>

\* the rows of final_training with the label
RowsOf(label) ==
    {i \in 1..Len(msgs_train_cln) : msgs_train_cln[i].Label = label}

RECURSIVE SumOver(_, _)
SumOver(f, S) ==
    IF S = {} THEN 0
    ELSE LET i == CHOOSE j \in S : TRUE IN f[i] + SumOver(f, S \ {i})

\* Proportion smoothed as the likelihoods are
ProportionSmoothed(label) ==
    FDivInt(Cardinality(RowsOf(label)) + 1, Len(msgs_train_cln) + 2)

\* final_training['Label'].value_counts(normalize = True)[label]
Proportion(label) == FDivInt(Cardinality(RowsOf(label)), Len(msgs_train_cln))

\* proportions['spam'], then proportions['ham']: a label no row has is no key
PriorsCell ==
    /\ cell = "priors"
    /\ IF RowsOf("spam") = {}
       THEN /\ cell' = "KeyError"
            /\ UNCHANGED <<bound, p_spam, p_ham>>
       ELSE IF RowsOf("ham") = {}
       THEN /\ p_spam' = Proportion("spam")
            /\ bound' = bound \cup {"proportions", "p_spam"}
            /\ cell' = "KeyError"
            /\ UNCHANGED p_ham
       ELSE /\ p_spam' = Proportion("spam")
            /\ p_ham' = Proportion("ham")
            /\ bound' = bound \cup {"proportions", "p_spam", "p_ham"}
            /\ cell' = "word_totals"
    /\ UNCHANGED <<msgs_train, msgs_train_cln, vocabulary, word_counts_per_sms,
                   n_spam, n_ham, p_given_spam, p_given_ham, counter_spam,
                   counter_ham, locals, Out, evaluation>>

\* train_spam['SMS'].apply(len).sum(), train_ham likewise; alpha = 1
MsgLen == [i \in 1..Len(msgs_train_cln) |-> Len(msgs_train_cln[i].SMS)]

WordTotalsCell ==
    /\ cell = "word_totals"
    /\ n_spam' = SumOver(MsgLen, RowsOf("spam"))
    /\ n_ham' = SumOver(MsgLen, RowsOf("ham"))
    /\ bound' = bound \cup {"n_spam", "n_ham", "alpha"}
    /\ cell' = "likelihoods"
    /\ UNCHANGED <<msgs_train, msgs_train_cln, vocabulary, word_counts_per_sms,
                   p_spam, p_ham, p_given_spam, p_given_ham, counter_spam,
                   counter_ham, locals, Out, evaluation>>

\* Likelihood with the word's count taken over all rows, not the label's
LikelihoodAllRows(word, label, n) ==
    FDivInt(SumOver(word_counts_per_sms[word], 1..Len(msgs_train_cln)) + alpha,
            n + alpha * Len(vocabulary))

\* Likelihood without the smoothing term of the numerator
LikelihoodUnsmoothed(word, label, n) ==
    FDivInt(SumOver(word_counts_per_sms[word], RowsOf(label)),
            n + alpha * Len(vocabulary))

\* Likelihood with alpha, not alpha * len(vocabulary), in the denominator
LikelihoodShortDenominator(word, label, n) ==
    FDivInt(SumOver(word_counts_per_sms[word], RowsOf(label)) + alpha,
            n + alpha)

\* (train_c[word].sum() + alpha) / (n_c + alpha * len(vocabulary))
Likelihood(word, label, n) ==
    FDivInt(SumOver(word_counts_per_sms[word], RowsOf(label)) + alpha,
            n + alpha * Len(vocabulary))

LikelihoodsCell ==
    /\ cell = "likelihoods"
    /\ p_given_spam' = [word \in Range(vocabulary) |-> Likelihood(word, "spam", n_spam)]
    /\ p_given_ham' = [word \in Range(vocabulary) |-> Likelihood(word, "ham", n_ham)]
    /\ bound' = bound \cup {"p_given_spam", "p_given_ham"}
    /\ cell' = "sum_check"
    /\ UNCHANGED <<msgs_train, msgs_train_cln, vocabulary, word_counts_per_sms,
                   p_spam, p_ham, n_spam, n_ham, counter_spam, counter_ham,
                   locals, Out, evaluation>>

\* counter += v over the items of a table, in the order they were inserted
RECURSIVE SumItems(_, _)
SumItems(table, k) ==
    IF k = 0 THEN FromInt(0)
    ELSE FAdd(SumItems(table, k - 1), table[vocabulary[k]])

SumCheckCell ==
    /\ cell = "sum_check"
    /\ counter_spam' = SumItems(p_given_spam, Len(vocabulary))
    /\ counter_ham' = SumItems(p_given_ham, Len(vocabulary))
    /\ bound' = bound \cup {"counter_spam", "counter_ham"}
    /\ cell' = "def_classify"
    /\ UNCHANGED <<msgs_train, msgs_train_cln, vocabulary, word_counts_per_sms,
                   p_spam, p_ham, n_spam, n_ham, p_given_spam, p_given_ham,
                   locals, Out, evaluation>>

\* def classify(message): the cell binds the name, and the calls come after it
DefClassifyCell ==
    /\ cell = "def_classify"
    /\ bound' = bound \cup {"classify"}
    /\ cell' = "trained"
    /\ UNCHANGED <<msgs_train, msgs_train_cln, vocabulary, word_counts_per_sms,
                   p_spam, p_ham, n_spam, n_ham, p_given_spam, p_given_ham,
                   counter_spam, counter_ham, locals, Out, evaluation>>

Train ==
    \/ CleanCell
    \/ SplitCell
    \/ VocabularyCell
    \/ WordCountsCell
    \/ PriorsCell
    \/ WordTotalsCell
    \/ LikelihoodsCell
    \/ SumCheckCell
    \/ DefClassifyCell

(***************************************************************************)
(* classify(message), a step at a time: the tokenizing and the two         *)
(* posteriors' start, one pass of the loop per word, the comparison.       *)
(***************************************************************************)

\* ClassifyCall with both posteriors starting at 1.0, the priors left out
ClassifyCallNoPriors(text) ==
    /\ "classify" \in bound
    /\ frame \in {"none", "returned"}
    /\ message' = Split(Lower(ReplaceNonWord(text)))
    /\ p_spam_given_message' = FromInt(1)
    /\ p_ham_given_message' = FromInt(1)
    /\ word_at' = 1
    /\ classified' = "none"
    /\ frame' = "loop"
    /\ UNCHANGED <<training, Out, evaluation>>

\* message = re.sub('\W', ' ', message).lower().split(), then both posteriors
\* start at the priors
ClassifyCall(text) ==
    /\ "classify" \in bound
    /\ frame \in {"none", "returned"}
    /\ message' = Split(Lower(ReplaceNonWord(text)))
    /\ p_spam_given_message' = p_spam
    /\ p_ham_given_message' = p_ham
    /\ word_at' = 1
    /\ classified' = "none"
    /\ frame' = "loop"
    /\ UNCHANGED <<training, Out, evaluation>>

\* if word in p_given_spam: ... *= p_given_spam[word]; the same for ham
TimesIfKey(p, table, word) ==
    IF word \in DOMAIN table THEN FMul(p, table[word]) ELSE p

\* ClassifyWord with a word outside the tables given the smoothed likelihood of
\* a word never counted, alpha / (n_c + alpha * (len(vocabulary) + 1))
ClassifyWordSmoothUnseen ==
    /\ frame = "loop"
    /\ word_at <= Len(message)
    /\ p_spam_given_message' =
           IF message[word_at] \in DOMAIN p_given_spam
           THEN FMul(p_spam_given_message, p_given_spam[message[word_at]])
           ELSE FMul(p_spam_given_message,
                     FDivInt(alpha, n_spam + alpha * (Len(vocabulary) + 1)))
    /\ p_ham_given_message' =
           IF message[word_at] \in DOMAIN p_given_ham
           THEN FMul(p_ham_given_message, p_given_ham[message[word_at]])
           ELSE FMul(p_ham_given_message,
                     FDivInt(alpha, n_ham + alpha * (Len(vocabulary) + 1)))
    /\ word_at' = word_at + 1
    /\ UNCHANGED <<training, frame, message, classified, Out, evaluation>>

\* ClassifyWord multiplying into the global priors, not into local copies
ClassifyWordOnGlobals ==
    /\ frame = "loop"
    /\ word_at <= Len(message)
    /\ p_spam' = TimesIfKey(p_spam, p_given_spam, message[word_at])
    /\ p_ham' = TimesIfKey(p_ham, p_given_ham, message[word_at])
    /\ p_spam_given_message' = p_spam'
    /\ p_ham_given_message' = p_ham'
    /\ word_at' = word_at + 1
    /\ UNCHANGED <<cell, bound, msgs_train, msgs_train_cln, vocabulary,
                   word_counts_per_sms, n_spam, n_ham, p_given_spam, p_given_ham,
                   counter_spam, counter_ham, frame, message, classified, Out, evaluation>>

ClassifyWord ==
    /\ frame = "loop"
    /\ word_at <= Len(message)
    /\ p_spam_given_message' =
           TimesIfKey(p_spam_given_message, p_given_spam, message[word_at])
    /\ p_ham_given_message' =
           TimesIfKey(p_ham_given_message, p_given_ham, message[word_at])
    /\ word_at' = word_at + 1
    /\ UNCHANGED <<training, frame, message, classified, Out, evaluation>>

\* Compare with a tie going to 'ham'
CompareTieToHam(ham, spam) ==
    IF FLess(ham, spam) THEN "spam" ELSE "ham"

\* if ham > spam: 'ham'; elif ham < spam: 'spam'; else: 'unclassified'
Compare(ham, spam) ==
    IF FLess(spam, ham) THEN "ham"
    ELSE IF FLess(ham, spam) THEN "spam"
    ELSE "unclassified"

ClassifyReturn ==
    /\ frame = "loop"
    /\ word_at > Len(message)
    /\ classified' = Compare(p_ham_given_message, p_spam_given_message)
    /\ frame' = "returned"
    /\ UNCHANGED <<training, message, word_at, p_spam_given_message,
                   p_ham_given_message, Out, evaluation>>

\* the notebook keeps what a cell returned (cells 20, 21)
KeepOutput ==
    /\ frame = "returned"
    /\ Out' = <<[message |-> message, classified |-> classified]>>
    /\ UNCHANGED <<training, locals, evaluation>>

Classify(texts) ==
    \/ \E text \in texts : ClassifyCall(text)
    \/ ClassifyWord
    \/ ClassifyReturn

\* calls on a few messages, any returned value kept for later
RepeatTexts ==
    { <<>>, <<"c">>, <<"a">>, <<"a", " ", "c">> }

NextRepeat == Train \/ Classify(RepeatTexts) \/ KeepOutput

SpecRepeat == Init /\ [][NextRepeat]_vars

\* calls on long messages, one word many times, on one small corpus
MaxRepeat == 1074

RepeatWord(n) == [i \in 1..(2 * n) |-> IF i % 2 = 1 THEN "a" ELSE " "]

LongTexts == {RepeatWord(n) : n \in (MaxRepeat - 4)..MaxRepeat}

LongCorpus ==
    << [Label |-> "spam", SMS |-> <<"a", " ", "B">>],
       [Label |-> "ham", SMS |-> <<"B", "!", "B">>],
       [Label |-> "ham", SMS |-> <<"B", "!", "B">>] >>

InitLong == InitWith(LongCorpus)

NextLong == Train \/ Classify(LongTexts)

SpecLong == InitLong /\ [][NextLong]_vars

\* the training cells alone, on every corpus
NextTrain == Train

SpecTrain == Init /\ [][NextTrain]_vars

Next == Train \/ Classify(TestTexts)

Spec == Init /\ [][Next]_vars

(***************************************************************************)
(* What the properties speak of, taken from the training rows themselves.  *)
(***************************************************************************)
Likelihoods == cell \in {"sum_check", "def_classify", "trained"}

Vocabulary == UNION {Range(msgs_train_cln[i].SMS) : i \in 1..Len(msgs_train_cln)}

MessagesOf(c) == Cardinality({i \in 1..Len(msgs_train) : msgs_train[i].Label = c})

\* the places (row, position) of the category's rows, and those that hold w
PlacesOf(c) ==
    UNION {{<<i, k>> : k \in 1..Len(msgs_train_cln[i].SMS)} :
             i \in {j \in 1..Len(msgs_train_cln) : msgs_train_cln[j].Label = c}}

TotalWordCount(c) == Cardinality(PlacesOf(c))

WordCount(c, w) ==
    Cardinality({pl \in PlacesOf(c) : msgs_train_cln[pl[1]].SMS[pl[2]] = w})

CondProb(c) == IF c = "spam" THEN p_given_spam ELSE p_given_ham

Recognized(k) == message[k] \in Range(vocabulary)

NoneRecognized == \A k \in 1..Len(message) : ~Recognized(k)

\* prior times the likelihoods of the first k words that the vocabulary holds
RECURSIVE ScoreOf(_, _, _)
ScoreOf(prior, table, k) ==
    IF k = 0 THEN prior
    ELSE IF Recognized(k) THEN FMul(ScoreOf(prior, table, k - 1), table[message[k]])
    ELSE ScoreOf(prior, table, k - 1)

\* C1: classify returns one of 'ham', 'spam', 'unclassified': 'ham' iff the ham
\* score (the prior times the likelihoods of the message's vocabulary words) is
\* the greater, 'spam' iff the spam score is, 'unclassified' iff they are equal.
C1_ClassifyByScores ==
    frame = "returned" =>
        LET ham  == ScoreOf(p_ham, p_given_ham, Len(message))
            spam == ScoreOf(p_spam, p_given_spam, Len(message))
        IN  /\ classified \in {"ham", "spam", "unclassified"}
            /\ classified = "ham" <=> FLess(spam, ham)
            /\ classified = "spam" <=> FLess(ham, spam)
            /\ classified = "unclassified" <=> ham = spam

C1_Witness ==
    /\ frame = "returned"
    /\ classified = "spam"
    /\ Len(message) = 2
    /\ \A k \in 1..Len(message) : Recognized(k)

\* C3 as claimed: a message with no recognized token is 'unclassified' on any
\* trained model.
C3_NoTokensUnclassified ==
    frame = "returned" /\ NoneRecognized => classified = "unclassified"

\* C3: a message with no recognized token gets the comparison of the priors:
\* 'ham' when more training messages are ham, 'spam' when more are spam,
\* 'unclassified' only when both categories have as many.
C3_NoTokensByPriors ==
    frame = "returned" /\ NoneRecognized =>
        classified = IF MessagesOf("ham") > MessagesOf("spam") THEN "ham"
                     ELSE IF MessagesOf("ham") < MessagesOf("spam") THEN "spam"
                     ELSE "unclassified"

C3_Witness ==
    /\ frame = "returned"
    /\ message = << <<"c">> >>
    /\ NoneRecognized
    /\ classified = "ham"

C5_StrictlyInside ==
    Likelihoods =>
        \A c \in Labels : \A w \in Range(vocabulary) :
            FLess(FZero, CondProb(c)[w]) /\ FLess(CondProb(c)[w], FromInt(1))

\* C5: every likelihood is above 0, also of a word its category never holds,
\* and at most 1; it is below 1 when the vocabulary has two words or more.
C5_Smoothed ==
    Likelihoods =>
        \A c \in Labels : \A w \in Range(vocabulary) :
            /\ FLess(FZero, CondProb(c)[w])
            /\ ~FLess(FromInt(1), CondProb(c)[w])
            /\ Len(vocabulary) >= 2 => FLess(CondProb(c)[w], FromInt(1))

C5_Witness ==
    /\ cell = "trained"
    /\ \E c \in Labels : \E w \in Range(vocabulary) :
           WordCount(c, w) = 0 /\ FLess(FZero, CondProb(c)[w])

\* |x - 1| <= 1e-9, exactly
NearOne(x) ==
    LET scaled == BMul(x.m, BFromInt(10 ^ 9))
    IN  /\ BCmp(scaled, BShl(BFromInt(10 ^ 9 - 1), -x.e)) >= 0
        /\ BCmp(scaled, BShl(BFromInt(10 ^ 9 + 1), -x.e)) <= 0

\* the numerators of a category's likelihoods add up to their denominator
ExactlyOne(c, n) ==
    SumOver([w \in Range(vocabulary) |->
               SumOver(word_counts_per_sms[w], RowsOf(c)) + alpha],
            Range(vocabulary))
        = n + alpha * Len(vocabulary)

SumsToOne ==
    /\ NearOne(counter_spam) /\ NearOne(counter_ham)
    /\ ExactlyOne("spam", n_spam) /\ ExactlyOne("ham", n_ham)

\* C6 as claimed: for every training corpus each table's likelihoods sum to 1.
C6_SumsToOneAlways == cell = "trained" => SumsToOne

\* C6: each table's likelihoods sum to 1 (within 1e-9 as floats, exactly as
\* fractions) for every training corpus that has a word at all.
C6_SumsToOneWithWords == cell = "trained" /\ vocabulary # <<>> => SumsToOne

C6_Witness ==
    /\ cell = "trained"
    /\ Len(vocabulary) = 2
    /\ n_spam = 4
    /\ SumsToOne

\* C9: a corpus that training rejects is rejected before any of the
\* vocabulary, the priors and the tables exists.
C9_RejectedBeforeModel ==
    cell = "KeyError" =>
        bound \cap {"vocabulary", "p_spam", "p_ham", "p_given_spam", "p_given_ham"} = {}

RecognizedWords(tokens) ==
    LET InVocabulary(w) == w \in Range(vocabulary) IN SelectSeq(tokens, InVocabulary)

\* C2: words outside the vocabulary give no factor: two messages with the same
\* vocabulary words in the same order, such as a message and the same message
\* without its unknown words, are classified alike.
C2_UnknownWordsIgnored ==
    frame = "returned" /\ Out # <<>>
        /\ RecognizedWords(Out[1].message) = RecognizedWords(message)
        => classified = Out[1].classified

C2_Witness ==
    /\ frame = "returned"
    /\ Out # <<>>
    /\ Out[1].message = << <<"a">> >>
    /\ message = << <<"a">>, <<"c">> >>
    /\ <<"a">> \in Range(vocabulary)
    /\ classified = Out[1].classified

\* C7: the same message classified again gets the same answer, whatever calls
\* lie between, and no step of a call changes the vocabulary, the priors or the
\* tables.
C7_SameAnswerAgain ==
    /\ [](frame = "returned" /\ Out # <<>> /\ Out[1].message = message
            => classified = Out[1].classified)
    /\ [][cell = "trained" =>
            UNCHANGED <<vocabulary, p_spam, p_ham, p_given_spam, p_given_ham>>]_vars

C7_Witness ==
    /\ frame = "returned"
    /\ Out # <<>>
    /\ Out[1].message = message
    /\ Len(message) = 2
    /\ classified = "spam"

\* the product of f[lo], ..., f[hi]
RECURSIVE BProd(_, _, _)
BProd(f, lo, hi) ==
    IF lo > hi THEN <<1>>
    ELSE IF lo = hi THEN BFromInt(f[lo])
    ELSE LET mid == (lo + hi) \div 2
         IN  BMul(BProd(f, lo, mid), BProd(f, mid + 1, hi))

\* The exact score of c, as a fraction, times the common denominators of both
\* scores: messages of c, times for each recognized word its count in c plus
\* alpha and the other category's denominator.
ExactScore(c, other) ==
    LET words  == RecognizedWords(message)
        factor == [w \in Vocabulary |->
                     (WordCount(c, w) + alpha)
                     * (TotalWordCount(other) + alpha * Cardinality(Vocabulary))]
        each   == [k \in 1..Len(words) |-> factor[words[k]]]
    IN  BMulSmall(BProd(each, 1, Len(each)), MessagesOf(c))

\* the answer of the exact scores, which is that of the sums of logarithms
ExactAnswer ==
    LET order == BCmp(ExactScore("ham", "spam"), ExactScore("spam", "ham"))
    IN  IF order > 0 THEN "ham" ELSE IF order < 0 THEN "spam" ELSE "unclassified"

\* C8: a message of two or more words, each in the vocabulary and likelier in
\* spam than in ham, whose exact spam score is the greater, is classified 'spam'.
C8_SpamWordsGiveSpam ==
    frame = "returned" /\ Len(message) > 1
        /\ (\A k \in 1..Len(message) :
               /\ Recognized(k)
               /\ FLess(p_given_ham[message[k]], p_given_spam[message[k]]))
        /\ ExactAnswer = "spam"
        => classified = "spam"

\* C10: classify's answer is that of the exact scores: 'unclassified' only when
\* they are equal, however many words the message has.
C10_NoSpuriousTie ==
    frame = "returned" => classified = ExactAnswer

(***************************************************************************)
(* Evaluation: classify applied to every test row, the answers mapped to   *)
(* 0 and 1, then the accuracy and the counts.                              *)
(***************************************************************************)

\* msgs_test['SMS'].apply(classify) begins
PredictStart ==
    /\ cell = "trained"
    /\ frame = "none"
    /\ msgs_test # <<>>
    /\ predicted' = <<>>
    /\ cell' = "predict"
    /\ UNCHANGED <<bound, msgs_train, msgs_train_cln, vocabulary,
                   word_counts_per_sms, p_spam, p_ham, n_spam, n_ham,
                   p_given_spam, p_given_ham, counter_spam, counter_ham, locals,
                   Out, msgs_test, msgs_boolean, total_accuracy, true_pos,
                   false_neg, false_pos, metrics>>

\* apply calls classify on the next row's SMS
PredictCall ==
    /\ cell = "predict"
    /\ frame = "none"
    /\ Len(predicted) < Len(msgs_test)
    /\ ClassifyCall(msgs_test[Len(predicted) + 1].SMS)

\* apply takes what the call returned
PredictKeep ==
    /\ cell = "predict"
    /\ frame = "returned"
    /\ predicted' = Append(predicted, classified)
    /\ frame' = "none"
    /\ UNCHANGED <<training, message, word_at, p_spam_given_message,
                   p_ham_given_message, classified, Out, msgs_test, msgs_boolean,
                   total_accuracy, true_pos, false_neg, false_pos, metrics>>

\* 'unclassified' with a tie counted as 'spam'
MappingUnclassifiedToSpam ==
    [x \in {"ham", "spam", "unclassified"} |-> IF x = "ham" THEN 0 ELSE 1]

\* mapping_dict = {'ham':0, 'spam':1, 'unclassified':0}
mapping_dict ==
    [x \in {"ham", "spam", "unclassified"} |-> IF x = "spam" THEN 1 ELSE 0]

\* msgs_test['Predicted'] = ...; msgs_boolean = msgs_test[cols].applymap(...)
PredictCell ==
    /\ cell = "predict"
    /\ frame = "none"
    /\ Len(predicted) = Len(msgs_test)
    /\ msgs_test' =
           [i \in 1..Len(msgs_test) |->
              [Label |-> msgs_test[i].Label, SMS |-> msgs_test[i].SMS,
               Predicted |-> predicted[i]]]
    /\ msgs_boolean' =
           [i \in 1..Len(msgs_test) |->
              [Label |-> mapping_dict[msgs_test[i].Label],
               Predicted |-> mapping_dict[predicted[i]]]]
    /\ bound' = bound \cup {"cols", "mapping_dict", "msgs_boolean"}
    /\ cell' = "accuracy"
    /\ UNCHANGED <<msgs_train, msgs_train_cln, vocabulary, word_counts_per_sms,
                   p_spam, p_ham, n_spam, n_ham, p_given_spam, p_given_ham,
                   counter_spam, counter_ham, locals, Out, predicted,
                   total_accuracy, true_pos, false_neg, false_pos, metrics>>

\* ((msgs_boolean.Label == label) & (msgs_boolean.Predicted == answer)).sum()
CountRows(label, answer) ==
    Cardinality({i \in 1..Len(msgs_boolean) :
                   msgs_boolean[i].Label = label /\ msgs_boolean[i].Predicted = answer})

\* total_accuracy = (Label == Predicted).sum() / len(msgs_boolean)
AccuracyCell ==
    /\ cell = "accuracy"
    /\ LET same == {i \in 1..Len(msgs_boolean) :
                       msgs_boolean[i].Label = msgs_boolean[i].Predicted}
       IN  total_accuracy' = FDivIntOrNaN(Cardinality(same), Len(msgs_boolean))
    /\ bound' = bound \cup {"total_accuracy"}
    /\ cell' = "metrics"
    /\ UNCHANGED <<msgs_train, msgs_train_cln, vocabulary, word_counts_per_sms,
                   p_spam, p_ham, n_spam, n_ham, p_given_spam, p_given_ham,
                   counter_spam, counter_ham, locals, Out, msgs_test, predicted,
                   msgs_boolean, true_pos, false_neg, false_pos, metrics>>

\* true_pos, false_neg, false_pos, then tpr, precision and f1_score
MetricsCell ==
    /\ cell = "metrics"
    /\ LET tp == CountRows(1, 1)
           fn == CountRows(1, 0)
           fp == CountRows(0, 1)
           tpr == FDivIntOrNaN(tp, tp + fn)
           precision == FDivIntOrNaN(tp, tp + fp)
           f1_score == FDiv(FMulOrNaN(FMulOrNaN(FromInt(2), precision), tpr),
                            FAddOrNaN(tpr, precision))
       IN  /\ true_pos' = tp
           /\ false_neg' = fn
           /\ false_pos' = fp
           /\ metrics' = [k \in {"tpr", "precision", "f1_score"} |->
                            IF k = "tpr" THEN tpr
                            ELSE IF k = "precision" THEN precision
                            ELSE f1_score]
    /\ bound' = bound \cup {"metrics", "true_pos", "false_neg", "false_pos",
                            "tpr", "precision", "f1_score"}
    /\ cell' = "evaluated"
    /\ UNCHANGED <<msgs_train, msgs_train_cln, vocabulary, word_counts_per_sms,
                   p_spam, p_ham, n_spam, n_ham, p_given_spam, p_given_ham,
                   counter_spam, counter_ham, locals, Out, msgs_test, predicted,
                   msgs_boolean, total_accuracy>>

Evaluate ==
    \/ PredictStart
    \/ PredictCall
    \/ PredictKeep
    \/ PredictCell
    \/ AccuracyCell
    \/ MetricsCell

\* one corpus whose model answers 'ham' to "a", 'spam' to "B" and
\* 'unclassified' to "c", and every short list of test rows of these messages
MaxTest == 2

MetricsCorpus ==
    << [Label |-> "ham", SMS |-> <<"a">>], [Label |-> "spam", SMS |-> <<"B">>] >>

TestRows == [Label : Labels, SMS : {<<"a">>, <<"B">>, <<"c">>}]

TestSets == UNION {[1..n -> TestRows] : n \in 1..MaxTest}

InitMetrics == \E test \in TestSets : InitOn(MetricsCorpus, test)

NextMetrics == Train \/ ClassifyWord \/ ClassifyReturn \/ Evaluate

SpecMetrics == InitMetrics /\ [][NextMetrics]_vars

\* the rows of msgs_test with the label and the answer given
RowsWith(label, answers) ==
    Cardinality({i \in 1..Len(msgs_test) :
                   msgs_test[i].Label = label /\ msgs_test[i].Predicted \in answers})

\* C12: 'spam' is the positive class and 'unclassified' counts as 'ham': right
\* for the accuracy on a ham row, a false negative on a spam row, never a true
\* or false positive; true_pos + false_neg is the number of spam rows and
\* true_pos + false_pos the number of 'spam' answers.
C12_UnclassifiedCountsAsHam ==
    cell = "evaluated" =>
        /\ true_pos = RowsWith("spam", {"spam"})
        /\ false_neg = RowsWith("spam", {"ham", "unclassified"})
        /\ false_pos = RowsWith("ham", {"spam"})
        /\ total_accuracy =
               FDivInt(RowsWith("spam", {"spam"})
                         + RowsWith("ham", {"ham", "unclassified"}),
                       Len(msgs_test))
        /\ true_pos + false_neg = RowsWith("spam", {"ham", "spam", "unclassified"})
        /\ true_pos + false_pos = RowsWith("ham", {"spam"}) + RowsWith("spam", {"spam"})

C12_Witness ==
    /\ cell = "evaluated"
    /\ Len(msgs_test) = 2
    /\ msgs_test[1].Label = "spam" /\ msgs_test[1].Predicted = "unclassified"
    /\ msgs_test[2].Label = "ham" /\ msgs_test[2].Predicted = "unclassified"
    /\ false_neg = 1
    /\ total_accuracy = FDivInt(1, 2)

(***************************************************************************)
(* The tokenizer on every short string: one training message is any string *)
(* of TokenChars, and classify is called on that same string.              *)
(***************************************************************************)
MaxTextLen == 3

TokenChars == {"a", "B", "U+0130", "!", " "}

TokenTexts == UNION {[1..n -> TokenChars] : n \in 0..MaxTextLen}

InitTokens ==
    \E text \in TokenTexts :
        InitWith(<< [Label |-> "ham", SMS |-> text],
                    [Label |-> "spam", SMS |-> <<"a">>] >>)

NextTokens == Train \/ Classify({msgs_train[1].SMS})

SpecTokens == InitTokens /\ [][NextTokens]_vars

\* the maximal runs of the characters of s that satisfy In, in order
MaximalRuns(s, In(_)) ==
    LET starts == {i \in 1..Len(s) : In(s[i]) /\ (i = 1 \/ ~In(s[i - 1]))}
        start(k) == CHOOSE i \in starts : Cardinality({j \in starts : j <= i}) = k
        end(i) == CHOOSE j \in i..Len(s) :
                      /\ \A m \in i..j : In(s[m])
                      /\ j = Len(s) \/ ~In(s[j + 1])
    IN  [k \in 1..Cardinality(starts) |-> SubSeq(s, start(k), end(start(k)))]

IsWordChar(c) == c \in WordChars

NotWhitespace(c) == c \notin Whitespace

\* s with each maximal run of non-word characters replaced by a single space
ReplaceRuns(s) ==
    LET kept == {i \in 1..Len(s) :
                   IsWordChar(s[i]) \/ i = 1 \/ IsWordChar(s[i - 1])}
        place(k) == CHOOSE i \in kept : Cardinality({j \in kept : j <= i}) = k
    IN  [k \in 1..Cardinality(kept) |->
           IF IsWordChar(s[place(k)]) THEN s[place(k)] ELSE " "]

\* the words of s: its maximal runs of word characters, each in lower case
LoweredWords(s) ==
    LET runs == MaximalRuns(s, IsWordChar)
    IN  [k \in 1..Len(runs) |-> Lower(runs[k])]

\* the tokenizer as specified: runs replaced, lower case, split on whitespace
\* without empty tokens
TokenizeByRuns(s) == MaximalRuns(Lower(ReplaceRuns(s)), NotWhitespace)

\* the token lists the program holds, with the strings they came from
TokenLists ==
    (IF cell \in {"clean", "split"} THEN {}
     ELSE {<<msgs_train[i].SMS, msgs_train_cln[i].SMS>> : i \in 1..Len(msgs_train)})
    \cup (IF frame = "none" THEN {} ELSE {<<msgs_train[1].SMS, message>>})

TokenizedAsSpecified ==
    \A pair \in TokenLists :
        /\ pair[2] = LoweredWords(pair[1])
        /\ pair[2] = TokenizeByRuns(pair[1])
        /\ \A k \in 1..Len(pair[2]) : pair[2][k] # <<>> /\ Lower(pair[2][k]) = pair[2][k]
        /\ (\A i \in 1..Len(pair[1]) : ~IsWordChar(pair[1][i])) => pair[2] = <<>>

\* C11 as stated: every token is non-empty and made of lower-case word
\* characters only, in input order; a string without a word character gives no
\* token; replacing each non-word character gives what replacing runs gives.
C11_TokensOfWordChars ==
    /\ TokenizedAsSpecified
    /\ \A pair \in TokenLists : \A k \in 1..Len(pair[2]) :
           \A i \in 1..Len(pair[2][k]) : IsWordChar(pair[2][k][i])

\* C11: the tokens are the maximal runs of word characters of the string, each
\* in lower case, in input order, none empty; a string without a word character
\* gives no token; replacing each non-word character by a space gives the
\* tokens that replacing each run by one space gives.
C11_TokensAreLoweredWords == TokenizedAsSpecified

C11_Witness ==
    /\ frame = "returned"
    /\ msgs_train[1].SMS = <<"U+0130", "!", "B">>
    /\ message = << <<"i", "U+0307">>, <<"b">> >>
    /\ msgs_train_cln[1].SMS = message

(***************************************************************************)
(* Retraining: msgs_train is bound to other rows and the training cells    *)
(* are run again, while classify stays callable between any two cells.  A  *)
(* cell runs only when no call is under way: the kernel runs one thing at  *)
(* a time.                                                                 *)
(***************************************************************************)
RetrainCorpora ==
    { << [Label |-> "ham", SMS |-> <<"a">>], [Label |-> "spam", SMS |-> <<"B">>] >>,
      << [Label |-> "spam", SMS |-> <<"a">>], [Label |-> "spam", SMS |-> <<"a">>],
         [Label |-> "ham", SMS |-> <<"B", "!", "c">>] >> }

\* msgs_train = ... run again on other rows; the training cells follow
Retrain(corpus) ==
    /\ cell = "trained"
    /\ corpus # msgs_train
    /\ msgs_train' = corpus
    /\ cell' = "clean"
    /\ UNCHANGED <<bound, msgs_train_cln, vocabulary, word_counts_per_sms, p_spam,
                   p_ham, n_spam, n_ham, p_given_spam, p_given_ham, counter_spam,
                   counter_ham, locals, Out, evaluation>>

RetrainTexts == { <<>>, <<"a">>, <<"B", " ", "c">> }

InitRetrain == \E corpus \in RetrainCorpora : InitWith(corpus)

NextRetrain ==
    \/ frame # "loop" /\ Train
    \/ frame # "loop" /\ \E corpus \in RetrainCorpora : Retrain(corpus)
    \/ Classify(RetrainTexts)

SpecRetrain == InitRetrain /\ [][NextRetrain]_vars

\* the model that training on the corpus gives: priors and tables
TokensIn(corpus, labels) ==
    UNION {{<<i, k>> : k \in 1..Len(LoweredWords(corpus[i].SMS))} :
             i \in {j \in 1..Len(corpus) : corpus[j].Label \in labels}}

WordAt(corpus, place) == LoweredWords(corpus[place[1]].SMS)[place[2]]

WordsOf(corpus) == {WordAt(corpus, place) : place \in TokensIn(corpus, Labels)}

PriorOf(corpus, c) ==
    FDivInt(Cardinality({i \in 1..Len(corpus) : corpus[i].Label = c}), Len(corpus))

TableOf(corpus, c) ==
    [w \in WordsOf(corpus) |->
       FDivInt(Cardinality({place \in TokensIn(corpus, {c}) :
                              WordAt(corpus, place) = w}) + alpha,
               Cardinality(TokensIn(corpus, {c}))
                 + alpha * Cardinality(WordsOf(corpus)))]

ModelOf(corpus) ==
    /\ p_spam = PriorOf(corpus, "spam")
    /\ p_ham = PriorOf(corpus, "ham")
    /\ p_given_spam = TableOf(corpus, "spam")
    /\ p_given_ham = TableOf(corpus, "ham")

\* C13: a call under way while the model is trained again reads the priors and
\* the tables of one training, the earlier or the later, never a mix.
C13_CallSeesOneModel ==
    frame = "loop" => \E corpus \in RetrainCorpora : ModelOf(corpus)

\* C14: after training on rows of both categories each prior is the number of
\* the category's messages over the number of all messages, unsmoothed; the
\* two add up to 1 and each lies strictly between 0 and 1.
C14_PriorsAreProportions ==
    "p_ham" \in bound =>
        /\ p_ham = FDivInt(MessagesOf("ham"), Len(msgs_train))
        /\ p_spam = FDivInt(MessagesOf("spam"), Len(msgs_train))
        /\ MessagesOf("ham") + MessagesOf("spam") = Len(msgs_train)
        /\ FAdd(p_ham, p_spam) = FromInt(1)
        /\ \A p \in {p_ham, p_spam} : FLess(FZero, p) /\ FLess(p, FromInt(1))

C14_Witness ==
    /\ cell = "trained"
    /\ MessagesOf("ham") = 2
    /\ MessagesOf("spam") = 1
    /\ p_ham = FDivInt(2, 3)
    /\ p_spam = FDivInt(1, 3)

\* the sum, over the first k vocabulary words, of the word's column over the
\* category's rows
RECURSIVE ColumnTotals(_, _)
ColumnTotals(c, k) ==
    IF k = 0 THEN 0
    ELSE ColumnTotals(c, k - 1)
         + SumOver(word_counts_per_sms[vocabulary[k]],
                   {i \in 1..Len(msgs_train_cln) : msgs_train_cln[i].Label = c})

C16_SameKeysBothTables ==
    /\ Likelihoods =>
           /\ DOMAIN p_given_spam = DOMAIN p_given_ham
           /\ DOMAIN p_given_spam = Range(vocabulary)
           /\ Range(vocabulary) = WordsOf(msgs_train)
    /\ frame = "loop" /\ word_at <= Len(message) =>
           (message[word_at] \in DOMAIN p_given_spam
              <=> message[word_at] \in DOMAIN p_given_ham)

C16_Witness ==
    /\ frame = "loop"
    /\ word_at = 2
    /\ message = << <<"a">>, <<"c">> >>
    /\ <<"a">> \in DOMAIN p_given_spam
    /\ <<"c">> \notin DOMAIN p_given_ham
    /\ \E i \in 1..Len(msgs_train) :
           msgs_train[i].Label = "ham" /\ msgs_train[i].SMS = <<"a">>
    /\ \A i \in 1..Len(msgs_train) :
           msgs_train[i].Label = "spam" => msgs_train[i].SMS = <<"B", "!", "B">>
====
